---- MODULE Spec2Model ----
(***************************************************************************)
(* Variable resolution and result propagation of the pipeline reconciler   *)
(* (pkg/reconciler/pipelinerun/resources/apply.go).                        *)
(*                                                                         *)
(* Strings that may hold $(...) references are modelled as texts: a        *)
(* sequence of tokens, each either a literal piece or one reference        *)
(* $(key) / $(key[*]).  Replacement maps are functions from key strings.   *)
(* Keys are built by concatenation exactly as fmt.Sprintf builds them      *)
(* (for names without characters that %q would escape).                    *)
(***************************************************************************)
EXTENDS Integers, Sequences, FiniteSets, TLC

VARIABLES
    spec,      \* the *v1.PipelineSpec object the caller holds and passes in
    pr,        \* the *v1.PipelineRun passed in
    out,       \* the *v1.PipelineSpec returned by the last call
    lastOp,    \* the entry point called last
    repl,      \* the replacement maps the last call handed to ApplyReplacements
    prRepl,    \* the maps paramsFromPipelineRun returned in the last ApplyParameters
    \* one call of ApplyTaskResultsToPipelineResults
    aggPc,     \* "loop": in the loop over results; "done": returned; "panic": crashed
    memo,      \* stringReplacements, arrayReplacements, objectReplacements
    runResults,              \* the results resolved so far
    invalidPipelineResults,  \* the names marked invalid so far
    processed, \* the declared results the loop has gone through, in order
    steps,     \* for the last declared result: what each of its variables did
    ret,       \* what the call returned
    \* calls of ApplyPipelineTaskContexts on one run state
    factsState,  \* facts.State: the run-state entries, each with its ResultsCache
    ctxIn,       \* the pipeline task passed to the last call
    ctxOut,      \* the pipeline task the last call returned
    ctxRepl,     \* the replacements of the last call
    computed,    \* per entry: how often createResultsCacheMatrixedTaskRuns ran
    ctxOp,       \* what happened last: "none", "call", "run"
    \* several runs resolved against one pipeline spec object
    sharedOrig,  \* the spec object as it was before any call
    sharedSpec,  \* the spec object the runs share
    runOut       \* per run and entry point: the spec returned, if called

applyVars == <<spec, pr, out, lastOp, repl, prRepl>>

aggVars == <<aggPc, memo, runResults, invalidPipelineResults, processed, steps, ret>>

ctxVars == <<factsState, ctxIn, ctxOut, ctxRepl, computed, ctxOp>>

runsVars == <<sharedOrig, sharedSpec, runOut>>

vars == <<spec, pr, out, lastOp, repl, prRepl,
          aggPc, memo, runResults, invalidPipelineResults, processed, steps, ret,
          factsState, ctxIn, ctxOut, ctxRepl, computed, ctxOp,
          sharedOrig, sharedSpec, runOut>>

(***************************** bounds **************************************)
\* longest array value of a parameter default / run parameter / task result
MaxLen == 2

\* most declared pipeline results in one call of the aggregator
MaxResults == 2

(***************************** maps ****************************************)
EmptyMap == [k \in {} |-> k]

Put(m, k, v) == [x \in DOMAIN m \cup {k} |-> IF x = k THEN v ELSE m[x]]

\* for k, v := range n { m[k] = v }
Overlay(m, n) == [x \in DOMAIN m \cup DOMAIN n |-> IF x \in DOMAIN n THEN n[x] ELSE m[x]]

Maps(s, a, o) == [s |-> s, a |-> a, o |-> o]

NoMaps == Maps(EmptyMap, EmptyMap, EmptyMap)

(***************************** texts ***************************************)
LitTok(str) == [lit |-> TRUE, s |-> str, star |-> FALSE]

\* the text of a plain string
T(str) == <<LitTok(str)>>

\* the text "$(key)"
R(key) == <<[lit |-> FALSE, s |-> key, star |-> FALSE]>>

\* the text "$(key[*])"
RStar(key) == <<[lit |-> FALSE, s |-> key, star |-> TRUE]>>

RECURSIVE ApplyText(_, _)
\* substitution.ApplyReplacements: every $(k) with k a key is replaced by the
\* value, in one pass (the inserted value is not scanned again)
ApplyText(text, m) ==
    IF text = <<>> THEN <<>>
    ELSE LET tok == Head(text)
             piece == IF ~tok.lit /\ ~tok.star /\ tok.s \in DOMAIN m
                      THEN m[tok.s] ELSE <<tok>>
         IN piece \o ApplyText(Tail(text), m)

\* whether the text is exactly one reference $(k) or $(k[*])
IsExactRef(text) == Len(text) = 1 /\ ~text[1].lit

\* substitution.ApplyArrayReplacements: a text that is exactly $(k) or $(k[*])
\* for an array key k becomes the array; any other text gets the string
\* replacements and stays one element
ApplyArrayText(text, s, a) ==
    IF IsExactRef(text) /\ text[1].s \in DOMAIN a
    THEN a[text[1].s]
    ELSE <<ApplyText(text, s)>>

(***************************** values **************************************)
StrVal(text) == [Type |-> "string", StringVal |-> text, ArrayVal |-> <<>>, ObjectVal |-> EmptyMap]

ArrVal(arr) == [Type |-> "array", StringVal |-> <<>>, ArrayVal |-> arr, ObjectVal |-> EmptyMap]

ObjVal(obj) == [Type |-> "object", StringVal |-> <<>>, ArrayVal |-> <<>>, ObjectVal |-> obj]

\* a nil *ParamValue (no default declared)
NilVal == [Type |-> "nil", StringVal |-> <<>>, ArrayVal |-> <<>>, ObjectVal |-> EmptyMap]

RECURSIVE ExpandArray(_, _, _)
ExpandArray(arr, s, a) ==
    IF arr = <<>> THEN <<>>
    ELSE ApplyArrayText(Head(arr), s, a) \o ExpandArray(Tail(arr), s, a)

\* ParamValue.ApplyReplacements: the Substitution Engine on one value.
\* An array value expands splats and replaces strings in its elements, an
\* object value replaces strings in its attributes.  A string value that is
\* exactly one reference takes the shape of what it refers to: an object if
\* the key is an object key, else an array if it is an array key, else the
\* string replacement.
ReplaceValue(v, s, a, o) ==
    CASE v.Type = "array" -> ArrVal(ExpandArray(v.ArrayVal, s, a))
      [] v.Type = "object" ->
            ObjVal([k \in DOMAIN v.ObjectVal |-> ApplyText(v.ObjectVal[k], s)])
      [] v.Type = "string" ->
            IF IsExactRef(v.StringVal)
            THEN LET tok == v.StringVal[1]
                 IN CASE tok.s \in DOMAIN o -> ObjVal(o[tok.s])
                      [] tok.s \in DOMAIN a -> ArrVal(a[tok.s])
                      [] OTHER -> StrVal(ApplyText(v.StringVal, s))
            ELSE StrVal(ApplyText(v.StringVal, s))
      [] OTHER -> v

\* Params.ReplaceVariables
ReplaceVariables(params, s, a, o) ==
    [i \in DOMAIN params |->
        [params[i] EXCEPT !.Value = ReplaceValue(params[i].Value, s, a, o)]]

\* WhenExpressions.ReplaceVariables
ReplaceWhen(when, s, a) ==
    [i \in DOMAIN when |->
        [Input |-> ApplyText(when[i].Input, s),
         Values |-> ExpandArray(when[i].Values, s, a)]]

(***************************** parameter keys ******************************)
\* a slip: the single-quote form left out
paramPatternsWithoutQuote ==
    << [pre |-> "params.", post |-> ""],
       [pre |-> "params[\"", post |-> "\"]"] >>

\* the three address forms: "params.%s", "params[%q]", "params['%s']"
paramPatterns ==
    << [pre |-> "params.", post |-> ""],
       [pre |-> "params[\"", post |-> "\"]"],
       [pre |-> "params['", post |-> "']"] >>

\* fmt.Sprintf(pattern, name)
Sprintf(pattern, name) == pattern.pre \o name \o pattern.post

\* fmt.Sprintf(pattern+"[%d]", name, i)
SprintfIdx(pattern, name, i) == Sprintf(pattern, name) \o "[" \o ToString(i) \o "]"

\* fmt.Sprintf(objectIndividualVariablePattern, name, key): "params.%s.%s"
objectIndividualVariablePattern(name, key) == "params." \o name \o "." \o key

RECURSIVE PutElements(_, _, _, _, _)
\* for i := range len(arr) { m[Sprintf(pattern+"[%d]", name, i)] = arr[i] }
PutElements(m, pattern, name, arr, i) ==
    IF i > Len(arr) THEN m
    ELSE PutElements(Put(m, SprintfIdx(pattern, name, i - 1), arr[i]), pattern, name, arr, i + 1)

RECURSIVE PutAttributes(_, _, _, _)
\* for k, v := range obj { m[Sprintf("params.%s.%s", name, k)] = v }
PutAttributes(m, name, obj, keys) ==
    IF keys = {} THEN m
    ELSE LET k == CHOOSE x \in keys : TRUE
         IN PutAttributes(Put(m, objectIndividualVariablePattern(name, k), obj[k]),
                          name, obj, keys \ {k})

RECURSIVE SetArray(_, _, _, _)
\* the ParamTypeArray case, over paramPatterns from position j
SetArray(maps, name, arr, j) ==
    IF j > Len(paramPatterns) THEN maps
    ELSE SetArray(Maps(PutElements(maps.s, paramPatterns[j], name, arr, 1),
                       Put(maps.a, Sprintf(paramPatterns[j], name), arr),
                       maps.o),
                  name, arr, j + 1)

RECURSIVE SetObject(_, _, _, _)
\* the first loop of the ParamTypeObject case, over paramPatterns from position j
SetObject(maps, name, obj, j) ==
    IF j > Len(paramPatterns) THEN maps
    ELSE SetObject(Maps(maps.s, maps.a, Put(maps.o, Sprintf(paramPatterns[j], name), obj)),
                   name, obj, j + 1)

RECURSIVE SetString(_, _, _, _)
\* the ParamTypeString / default case, over paramPatterns from position j
SetString(maps, name, text, j) ==
    IF j > Len(paramPatterns) THEN maps
    ELSE SetString(Maps(Put(maps.s, Sprintf(paramPatterns[j], name), text), maps.a, maps.o),
                   name, text, j + 1)

\* the switch on the value's type tag, for one (name, value)
SetParam(maps, name, v) ==
    CASE v.Type = "array" -> SetArray(maps, name, v.ArrayVal, 1)
      [] v.Type = "object" ->
            LET m1 == SetObject(maps, name, v.ObjectVal, 1)
            IN Maps(PutAttributes(m1.s, name, v.ObjectVal, DOMAIN v.ObjectVal), m1.a, m1.o)
      [] OTHER -> SetString(maps, name, v.StringVal, 1)

RECURSIVE defaultReplacements(_, _)
\* "Set all the default stringReplacements": the loop over p.Params
defaultReplacements(maps, params) ==
    IF params = <<>> THEN maps
    ELSE LET p == Head(params)
         IN defaultReplacements(
                IF p.Default.Type # "nil" THEN SetParam(maps, p.Name, p.Default) ELSE maps,
                Tail(params))

RECURSIVE paramsFromRun(_, _)
paramsFromRun(maps, params) ==
    IF params = <<>> THEN maps
    ELSE paramsFromRun(SetParam(maps, Head(params).Name, Head(params).Value), Tail(params))

\* paramsFromPipelineRun: the three maps of the run's parameters
paramsFromPipelineRun(run) == paramsFromRun(NoMaps, run.Params)

\* the maps ApplyParameters builds: defaults, then the run's maps laid over them
ApplyParametersMaps(p, run) ==
    LET d == defaultReplacements(NoMaps, p.Params)
        r == paramsFromPipelineRun(run)
    IN Maps(Overlay(d.s, r.s), Overlay(d.a, r.a), Overlay(d.o, r.o))

(***************************** pipeline tasks *****************************)
\* PipelineTask.IsMatrixed: a matrix with parameters or include combinations
IsMatrixed(t) ==
    t.Matrix.present /\ (Len(t.Matrix.Params) > 0 \/ Len(t.Matrix.Include) > 0)

\* resources.ApplyReplacements on an embedded task spec: its script takes the
\* string replacements, its args also expand array references
ApplyTaskSpec(ts, s, a, o) ==
    [ts EXCEPT !.Script = ApplyText(@, s), !.Args = ExpandArray(@, s, a)]

\* one task parameter against one address form: "Scoping. Task Params will
\* replace Pipeline Params"
Shadow(dup, par, pattern) ==
    LET checkName == Sprintf(pattern, par.Name)
        s1 == IF checkName \in DOMAIN dup.s
              THEN Put(dup.s, checkName, par.Value.StringVal) ELSE dup.s
        a1 == IF checkName \in DOMAIN dup.a
              THEN Put(dup.a, checkName, par.Value.ArrayVal) ELSE dup.a
    IN IF checkName \in DOMAIN dup.o
       THEN Maps(PutAttributes(s1, par.Name, par.Value.ObjectVal, DOMAIN par.Value.ObjectVal),
                 a1, Put(dup.o, checkName, par.Value.ObjectVal))
       ELSE Maps(s1, a1, dup.o)

RECURSIVE ShadowParams(_, _, _, _)
\* for _, par := range t.Params { for _, pattern := range paramPatterns { ... } }
ShadowParams(dup, params, i, j) ==
    IF i > Len(params) THEN dup
    ELSE IF j > Len(paramPatterns) THEN ShadowParams(dup, params, i + 1, 1)
    ELSE ShadowParams(Shadow(dup, params[i], paramPatterns[j]), params, i, j + 1)

propagateParams(t, s, a, o) ==
    IF ~t.TaskSpec.present THEN t
    ELSE IF Len(t.Params) > 0
    THEN LET dup == ShadowParams(Maps(s, a, o), t.Params, 1, 1)
         IN [t EXCEPT !.TaskSpec = ApplyTaskSpec(@, dup.s, dup.a, dup.o)]
    ELSE [t EXCEPT !.TaskSpec = ApplyTaskSpec(@, s, a, o)]

\* the display name of a task after the loop body of replaceVariablesInPipelineTasks
replaceDisplayName(t, s) ==
    IF IsMatrixed(t) THEN t.DisplayName ELSE ApplyText(t.DisplayName, s)

\* the body of the loop of replaceVariablesInPipelineTasks, for one task
replaceVariablesInPipelineTask(t, s, a, o) ==
    LET t1 == [t EXCEPT
                !.Params = ReplaceVariables(@, s, a, o),
                !.Matrix = IF IsMatrixed(t)
                           THEN [@ EXCEPT
                                   !.Params = ReplaceVariables(@, s, a, EmptyMap),
                                   !.Include = [k \in DOMAIN @ |->
                                                  ReplaceVariables(@[k], s, EmptyMap, EmptyMap)]]
                           ELSE @,
                !.DisplayName = replaceDisplayName(t, s),
                !.Workspaces = [k \in DOMAIN @ |->
                                  [@[k] EXCEPT !.SubPath = ApplyText(@, s)]],
                !.When = ReplaceWhen(@, s, a),
                !.TaskRef = IF @.present
                            THEN [@ EXCEPT
                                    !.Params = IF Len(@) > 0
                                               THEN ReplaceVariables(@, s, a, o) ELSE @,
                                    !.Name = ApplyText(@, s)]
                            ELSE @,
                !.OnError = ApplyText(@, s)]
    IN propagateParams(t1, s, a, o)

replaceVariablesInPipelineTasks(tasks, s, a, o) ==
    [i \in DOMAIN tasks |-> replaceVariablesInPipelineTask(tasks[i], s, a, o)]

\* ApplyReplacements: the clone of p with both task lists replaced
ApplyReplacements(p, s, a, o) ==
    [p EXCEPT !.Tasks = replaceVariablesInPipelineTasks(@, s, a, o),
              !.Finally = replaceVariablesInPipelineTasks(@, s, a, o)]

(***************************** context, workspaces *************************)
GetContextReplacements(pipelineName, run) ==
    [k \in {"context.pipelineRun.name", "context.pipeline.name",
            "context.pipelineRun.namespace", "context.pipelineRun.uid"} |->
        CASE k = "context.pipelineRun.name" -> T(run.Name)
          [] k = "context.pipeline.name" -> T(pipelineName)
          [] k = "context.pipelineRun.namespace" -> T(run.Namespace)
          [] OTHER -> T(run.UID)]

\* what the two loops at the head of ApplyContexts leave in the spec passed in
ApplyContextsDisplayNames(p, pipelineName, run) ==
    LET setName(tasks) ==
            [i \in DOMAIN tasks |->
                [tasks[i] EXCEPT !.DisplayName =
                    ApplyText(@, GetContextReplacements(pipelineName, run))]]
    IN [p EXCEPT !.Tasks = setName(@), !.Finally = setName(@)]

\* fmt.Sprintf("workspaces.%s.bound", name)
BoundKey(name) == "workspaces." \o name \o ".bound"

RECURSIVE PutBound(_, _, _)
PutBound(m, workspaces, value) ==
    IF workspaces = <<>> THEN m
    ELSE PutBound(Put(m, BoundKey(Head(workspaces)), T(value)), Tail(workspaces), value)

\* a slip: the two loops in the other order
WorkspaceReplacementsBoundFirst(p, run) ==
    PutBound(PutBound(EmptyMap, run.Workspaces, "true"), p.Workspaces, "false")

\* the replacements of ApplyWorkspaces: declared ones "false", then bound ones "true"
WorkspaceReplacements(p, run) ==
    PutBound(PutBound(EmptyMap, p.Workspaces, "false"), run.Workspaces, "true")

(***************************** inputs **************************************)
\* the declared parameter every run of the model is about
ParamName == "foo"

ObjectKeys == {"k1", "k2"}

\* a declared default array of n elements: "d0", "d1", ...
DefaultArray(n) == [i \in 1..n |-> T("d" \o ToString(i - 1))]

\* a run-supplied array of n elements: "r0", "r1", ...
RunArray(n) == [i \in 1..n |-> T("r" \o ToString(i - 1))]

DefaultObject(keys) == [k \in keys |-> T("d-" \o k)]

RunObject(keys) == [k \in keys |-> T("r-" \o k)]

\* the declared default of the parameter: none, a string, an array, an object
DefaultChoices ==
    {NilVal, StrVal(T("dstr"))}
        \cup {ArrVal(DefaultArray(n)) : n \in 0..MaxLen}
        \cup {ObjVal(DefaultObject(keys)) : keys \in {{"k1"}, {"k2"}, ObjectKeys}}

\* the value the run supplies for the parameter: none (NilVal), a string, ...
RunChoices ==
    {NilVal, StrVal(T("rstr"))}
        \cup {ArrVal(RunArray(n)) : n \in 0..MaxLen}
        \cup {ObjVal(RunObject(keys)) : keys \in {{"k1"}, {"k2"}, ObjectKeys}}

\* the three syntaxes of a parameter reference, as a pipeline author writes them
RefKey(syntax, name) ==
    CASE syntax = 1 -> "params." \o name
      [] syntax = 2 -> "params[\"" \o name \o "\"]"
      [] OTHER -> "params['" \o name \o "']"

RefIdxKey(syntax, name, i) == RefKey(syntax, name) \o "[" \o ToString(i) \o "]"

Syntaxes == {1, 2, 3}

\* how a task field refers to the parameter
Probes ==
    {[kind |-> k, i |-> 0] : k \in {"whole", "mixed", "splat", "object", "attr"}}
        \cup {[kind |-> "index", i |-> i] : i \in 0..MaxLen}

\* the value of a task parameter that refers to the parameter as probe q says,
\* in the given syntax
ProbeValue(q, syntax) ==
    CASE q.kind = "whole" -> StrVal(R(RefKey(syntax, ParamName)))
      [] q.kind = "mixed" -> StrVal(T("pre-") \o R(RefKey(syntax, ParamName)))
      [] q.kind = "splat" -> ArrVal(<<RStar(RefKey(syntax, ParamName))>>)
      [] q.kind = "object" -> StrVal(RStar(RefKey(syntax, ParamName)))
      [] q.kind = "attr" -> StrVal(R(RefKey(1, ParamName) \o ".k1"))
      [] OTHER -> StrVal(R(RefIdxKey(syntax, ParamName, q.i)))

\* one parameter per syntax, all referring to the parameter the same way
ProbeParams(q) ==
    [j \in 1..3 |-> [Name |-> "p" \o ToString(j), Value |-> ProbeValue(q, j)]]

NoMatrix == [present |-> FALSE, Params |-> <<>>, Include |-> <<>>]

NoTaskRef == [present |-> FALSE, Name |-> <<>>, Params |-> <<>>]

NoTaskSpec == [present |-> FALSE, Script |-> <<>>, Args |-> <<>>]

TaskVariants == {"ref", "embedded", "matrixed"}

\* a pipeline task all of whose templated fields refer to the parameter
ProbeTask(name, q, variant) ==
    [Name |-> name,
     DisplayName |-> R("context.pipelineRun.name") \o T("-") \o R(RefKey(1, ParamName)),
     Params |-> ProbeParams(q),
     Matrix |-> IF variant = "matrixed"
                THEN [present |-> TRUE,
                      Params |-> <<[Name |-> "m1",
                                    Value |-> ArrVal(<<RStar(RefKey(1, ParamName))>>)]>>,
                      Include |-> << <<[Name |-> "i1",
                                        Value |-> StrVal(R(RefKey(1, ParamName)))]>> >>]
                ELSE NoMatrix,
     Workspaces |-> <<[SubPath |-> R(BoundKey("w1")) \o R(BoundKey("w2"))
                                    \o R(RefKey(1, ParamName))]>>,
     When |-> <<[Input |-> R(RefKey(1, ParamName)),
                 Values |-> <<RStar(RefKey(1, ParamName))>>]>>,
     TaskRef |-> IF variant = "embedded" THEN NoTaskRef
                 ELSE [present |-> TRUE, Name |-> R(RefKey(1, ParamName)),
                       Params |-> ProbeParams(q)],
     OnError |-> R(RefKey(1, ParamName)),
     TaskSpec |-> IF variant = "embedded"
                  THEN [present |-> TRUE, Script |-> R(RefKey(1, ParamName)),
                        Args |-> <<RStar(RefKey(1, ParamName))>>]
                  ELSE NoTaskSpec]

PipelineName == "pipe"

RunName == "run1"

\* what the pipeline declares and what the run binds: w1 declared and not
\* bound (w2 neither), w1 declared and bound, w2 bound and not declared
WorkspaceChoices ==
    {[declared |-> <<"w1">>, bound |-> <<>>],
     [declared |-> <<"w1">>, bound |-> <<"w1">>],
     [declared |-> <<>>, bound |-> <<"w2">>]}

\* the inputs of a run of the model: every default, run value and reference
\* under one workspace binding, and every workspace binding under one
\* default and reference
Inputs ==
    {[d |-> d, r |-> r, q |-> q, variant |-> variant,
      ws |-> [declared |-> <<"w1">>, bound |-> <<"w1">>]] :
        d \in DefaultChoices, r \in RunChoices, q \in Probes, variant \in TaskVariants}
    \cup
    {[d |-> StrVal(T("dstr")), r |-> NilVal, q |-> [kind |-> "whole", i |-> 0],
      variant |-> variant, ws |-> ws] :
        variant \in TaskVariants, ws \in WorkspaceChoices}

(***************************** entry points ********************************)
\* no aggregation is under way
AggIdle ==
    /\ aggPc = "idle"
    /\ memo = NoMaps
    /\ runResults = <<>>
    /\ invalidPipelineResults = <<>>
    /\ processed = <<>>
    /\ steps = <<>>
    /\ ret = [results |-> <<>>, err |-> <<>>]

\* ApplyPipelineTaskContexts has not been called and there is no run state
CtxIdle ==
    /\ factsState = <<>>
    /\ ctxIn = <<>>
    /\ ctxOut = <<>>
    /\ ctxRepl = EmptyMap
    /\ computed = <<>>
    /\ ctxOp = "none"

\* no runs share a spec object
RunsIdle ==
    /\ sharedOrig = <<>>
    /\ sharedSpec = <<>>
    /\ runOut = <<>>

ApplyInit ==
    /\ \E in \in Inputs :
          /\ spec = [Params |-> <<[Name |-> ParamName, Default |-> in.d]>>,
                     Tasks |-> <<ProbeTask("t1", in.q, in.variant)>>,
                     Finally |-> <<ProbeTask("f1", in.q, in.variant)>>,
                     Workspaces |-> in.ws.declared]
          /\ pr = [Name |-> RunName, Namespace |-> "ns", UID |-> "uid1",
                   Params |-> IF in.r = NilVal THEN <<>>
                              ELSE <<[Name |-> ParamName, Value |-> in.r]>>,
                   Workspaces |-> in.ws.bound]
    /\ out = spec
    /\ lastOp = "none"
    /\ repl = NoMaps
    /\ prRepl = NoMaps
    /\ AggIdle
    /\ CtxIdle
    /\ RunsIdle

\* ApplyParameters(ctx, spec, pr)
ApplyParameters ==
    LET m == ApplyParametersMaps(spec, pr)
    IN /\ out' = ApplyReplacements(spec, m.s, m.a, m.o)
       /\ repl' = m
       /\ prRepl' = paramsFromPipelineRun(pr)
       /\ lastOp' = "ApplyParameters"
       /\ UNCHANGED <<spec, pr>>
       /\ UNCHANGED <<aggVars, ctxVars, runsVars>>

\* ApplyContexts(spec, pipelineName, pr): the display names are set on the
\* spec passed in, and the clone is made of that
ApplyContexts ==
    LET m == GetContextReplacements(PipelineName, pr)
    IN /\ spec' = ApplyContextsDisplayNames(spec, PipelineName, pr)
       /\ out' = ApplyReplacements(spec', m, EmptyMap, EmptyMap)
       /\ repl' = Maps(m, EmptyMap, EmptyMap)
       /\ lastOp' = "ApplyContexts"
       /\ UNCHANGED <<pr, prRepl>>
       /\ UNCHANGED <<aggVars, ctxVars, runsVars>>

\* ApplyWorkspaces(spec, pr)
ApplyWorkspaces ==
    LET m == WorkspaceReplacements(spec, pr)
    IN /\ out' = ApplyReplacements(spec, m, EmptyMap, EmptyMap)
       /\ repl' = Maps(m, EmptyMap, EmptyMap)
       /\ lastOp' = "ApplyWorkspaces"
       /\ UNCHANGED <<spec, pr, prRepl>>
       /\ UNCHANGED <<aggVars, ctxVars, runsVars>>

\* ApplyReplacements(spec, ...) called directly, with the maps of the run's
\* parameters
CallApplyReplacements ==
    LET m == paramsFromPipelineRun(pr)
    IN /\ out' = ApplyReplacements(spec, m.s, m.a, m.o)
       /\ repl' = m
       /\ lastOp' = "ApplyReplacements"
       /\ UNCHANGED <<spec, pr, prRepl>>
       /\ UNCHANGED <<aggVars, ctxVars, runsVars>>

ApplyNext ==
    \/ ApplyParameters
    \/ ApplyContexts
    \/ ApplyWorkspaces
    \/ CallApplyReplacements

SpecApply == ApplyInit /\ [][ApplyNext]_vars

(***************************** claims: entry points ************************)
AllTasks(p) == {p.Tasks[i] : i \in DOMAIN p.Tasks} \cup {p.Finally[i] : i \in DOMAIN p.Finally}

HasDefault == spec.Params[1].Default.Type # "nil"

HasRunValue == pr.Params # <<>>

\* the literal strings of a text
TextLiterals(text) == {text[i].s : i \in {j \in DOMAIN text : text[j].lit}}

\* the literal strings of a value
ValueLiterals(v) ==
    TextLiterals(v.StringVal)
        \cup UNION {TextLiterals(v.ArrayVal[i]) : i \in DOMAIN v.ArrayVal}
        \cup UNION {TextLiterals(v.ObjectVal[k]) : k \in DOMAIN v.ObjectVal}

\* the reference forms claim C2 names: whole value, array splat, object form
WholeProbes == {[kind |-> k, i |-> 0] : k \in {"whole", "splat", "object"}}

\* C1: every spec-resolving entry point (ApplyParameters, ApplyContexts,
\* ApplyWorkspaces, ApplyReplacements) leaves the pipeline specification
\* passed in field-for-field identical; substitutions, the display names of
\* tasks in Tasks and Finally included, are visible only in the returned clone.
C1_InputSpecUnchanged == [][spec' = spec]_vars

\* C2: in ApplyParameters, for a parameter that has both a declared default
\* and a run-supplied value, every reference to it in a task field (whole
\* value, array splat or object form, in any of the three syntaxes) resolves
\* to the run-supplied value and never to the default, whatever the types of
\* the default and of the run value: no text of the default is in the result.
C2_RunValueOverridesDefault ==
    (/\ lastOp = "ApplyParameters"
     /\ HasDefault /\ HasRunValue
     /\ \E q \in WholeProbes : spec.Tasks[1].Params = ProbeParams(q))
    => \A t \in AllTasks(out) : \A i \in DOMAIN t.Params :
          ValueLiterals(t.Params[i].Value) \cap ValueLiterals(spec.Params[1].Default) = {}

\* every key that addresses the parameter: whole, indexed, attribute
KeysOf(name) ==
    {RefKey(j, name) : j \in Syntaxes}
        \cup {RefIdxKey(j, name, i) : j \in Syntaxes, i \in 0..MaxLen}
        \cup {RefKey(1, name) \o "." \o k : k \in ObjectKeys}

\* map m has nothing under key k that map n does not have
FromMap(m, n, k) == k \in DOMAIN m => (k \in DOMAIN n /\ m[k] = n[k])

\* C3: in ApplyParameters the run overlay overwrites and never merges: for a
\* parameter the run supplies, the replacement maps hold no entry derived from
\* its declared default; an indexed key beyond the run array's length and an
\* attribute key absent from the run object are not there with the default's
\* value.
C3_OverlayNeverMerges ==
    (lastOp = "ApplyParameters" /\ HasRunValue)
    => \A k \in KeysOf(ParamName) :
          /\ FromMap(repl.s, prRepl.s, k)
          /\ FromMap(repl.a, prRepl.a, k)
          /\ FromMap(repl.o, prRepl.o, k)

\* map m holds the same under the three keys
SameUnder(m, k1, k2, k3) ==
    /\ (k1 \in DOMAIN m) = (k2 \in DOMAIN m)
    /\ (k1 \in DOMAIN m) = (k3 \in DOMAIN m)
    /\ k1 \in DOMAIN m => (m[k1] = m[k2] /\ m[k1] = m[k3])

SyntaxesAgree(maps, name) ==
    /\ SameUnder(maps.s, RefKey(1, name), RefKey(2, name), RefKey(3, name))
    /\ SameUnder(maps.a, RefKey(1, name), RefKey(2, name), RefKey(3, name))
    /\ SameUnder(maps.o, RefKey(1, name), RefKey(2, name), RefKey(3, name))
    /\ \A i \in 0..MaxLen :
          SameUnder(maps.s, RefIdxKey(1, name, i), RefIdxKey(2, name, i),
                    RefIdxKey(3, name, i))

\* the three parameters of task t, which differ only in the syntax of their
\* reference, are all left as written in task t0 or all resolved to one value
ResolvedAlike(t0, t) ==
    LET changed(j) == t.Params[j].Value # t0.Params[j].Value
    IN /\ changed(1) = changed(2)
       /\ changed(1) = changed(3)
       /\ changed(1) => (/\ t.Params[1].Value = t.Params[2].Value
                          /\ t.Params[1].Value = t.Params[3].Value)

\* C4: the replacement maps built by ApplyParameters and paramsFromPipelineRun
\* hold the same value under params.<name>, params["<name>"] and
\* params['<name>'] (and under each with an index suffix), so task parameters
\* that differ only in the syntax of their reference resolve to the same value.
C4_SyntaxEquivalence ==
    /\ SyntaxesAgree(repl, ParamName)
    /\ SyntaxesAgree(prRepl, ParamName)
    /\ lastOp \in {"ApplyParameters", "ApplyReplacements"} =>
          /\ \A i \in DOMAIN out.Tasks : ResolvedAlike(spec.Tasks[i], out.Tasks[i])
          /\ \A i \in DOMAIN out.Finally : ResolvedAlike(spec.Finally[i], out.Finally[i])

\* ApplyParameters resolved an indexed reference written in each of the
\* three syntaxes to the element of the run's array
C4_Witness ==
    /\ lastOp = "ApplyParameters"
    /\ RefKey(3, ParamName) \in DOMAIN repl.a
    /\ RefIdxKey(2, ParamName, 1) \in DOMAIN prRepl.s
    /\ spec.Tasks[1].Params = ProbeParams([kind |-> "index", i |-> 1])
    /\ \A j \in 1..3 : out.Tasks[1].Params[j].Value = StrVal(T("r1"))

\* the workspace names of the model: declared or bound in some input, or neither
WorkspaceNames == {"w1", "w2", "w3"}

InSeq(x, seq) == \E i \in DOMAIN seq : seq[i] = x

\* C14: after ApplyWorkspaces, for every workspace name the key
\* workspaces.<w>.bound is "true" if the run binds w, "false" if the pipeline
\* declares w and the run does not bind it, and absent otherwise; the task
\* fields are replaced with exactly these replacements.
C14_WorkspaceBoundFlags ==
    lastOp = "ApplyWorkspaces" =>
       /\ \A w \in WorkspaceNames :
             IF InSeq(w, pr.Workspaces)
             THEN BoundKey(w) \in DOMAIN repl.s /\ repl.s[BoundKey(w)] = T("true")
             ELSE IF InSeq(w, spec.Workspaces)
             THEN BoundKey(w) \in DOMAIN repl.s /\ repl.s[BoundKey(w)] = T("false")
             ELSE BoundKey(w) \notin DOMAIN repl.s
       /\ DOMAIN repl.s \subseteq {BoundKey(w) : w \in WorkspaceNames}
       /\ out = ApplyReplacements(spec, repl.s, EmptyMap, EmptyMap)
       /\ \A t \in AllTasks(out) :
             \A w \in WorkspaceNames :
                (InSeq(w, pr.Workspaces) /\ w \in {"w1", "w2"})
                    => "true" \in TextLiterals(t.Workspaces[1].SubPath)

\* ApplyWorkspaces was called for a pipeline that declares w1 and a run that
\* binds it: the flag of w1 is "true", w2 has none
C14_Witness ==
    /\ lastOp = "ApplyWorkspaces"
    /\ spec.Workspaces = <<"w1">>
    /\ pr.Workspaces = <<"w1">>
    /\ repl.s[BoundKey("w1")] = T("true")
    /\ BoundKey("w2") \notin DOMAIN repl.s

\* ApplyWorkspaces was called for a run that binds a workspace the pipeline
\* does not declare, and for a pipeline that declares one the run does not bind
C14_WitnessUndeclared ==
    /\ lastOp = "ApplyWorkspaces"
    /\ spec.Workspaces = <<>>
    /\ pr.Workspaces = <<"w2">>
    /\ repl.s[BoundKey("w2")] = T("true")

\* the text holds a reference $(key) that was not replaced
Unreplaced(text, key) == \E i \in DOMAIN text : ~text[i].lit /\ ~text[i].star /\ text[i].s = key

\* the text holds a reference $(key[*]) that was not replaced
UnreplacedStar(text, key) == \E i \in DOMAIN text : ~text[i].lit /\ text[i].star /\ text[i].s = key

\* the texts of a list of parameters: string values and array elements
ParamTexts(params) ==
    UNION {{params[i].Value.StringVal}
              \cup {params[i].Value.ArrayVal[k] : k \in DOMAIN params[i].Value.ArrayVal} :
           i \in DOMAIN params}

\* the templated fields of a task other than its display name: params, matrix
\* params and include params, when-conditions, task-reference name and
\* params, workspace sub-paths, on-error policy
FieldTexts(t) ==
    ParamTexts(t.Params)
        \cup ParamTexts(t.Matrix.Params)
        \cup UNION {ParamTexts(t.Matrix.Include[k]) : k \in DOMAIN t.Matrix.Include}
        \cup UNION {{t.When[k].Input} \cup {t.When[k].Values[n] : n \in DOMAIN t.When[k].Values} :
                    k \in DOMAIN t.When}
        \cup (IF t.TaskRef.present THEN {t.TaskRef.Name} \cup ParamTexts(t.TaskRef.Params) ELSE {})
        \cup {t.Workspaces[k].SubPath : k \in DOMAIN t.Workspaces}
        \cup {t.OnError}

\* the keys of the whole parameter in the three syntaxes
WholeKeys == {RefKey(j, ParamName) : j \in Syntaxes}

\* no reference to the parameter is left in the texts: none to its string
\* value if the replacements have one, no [*] reference if they have an array
AllReplaced(texts) ==
    \A text \in texts : \A key \in WholeKeys :
       /\ key \in DOMAIN repl.s => ~Unreplaced(text, key)
       /\ key \in DOMAIN repl.a => ~UnreplacedStar(text, key)

\* the fields other than the display name are replaced in every task of both
\* lists, and the display name in every task that has no matrix
C15_OtherFields ==
    lastOp = "ApplyParameters" =>
       \A t \in AllTasks(out) :
          /\ AllReplaced(FieldTexts(t))
          /\ ~IsMatrixed(t) => AllReplaced({t.DisplayName})

\* C15: after ApplyParameters no templated field of a task of either list
\* holds a reference the replacements resolve: params, matrix params and
\* include params, when-conditions, task-reference name and params, workspace
\* sub-paths, on-error policy and display name, with or without a matrix.
C15_EveryFieldReplaced ==
    lastOp = "ApplyParameters" =>
       \A t \in AllTasks(out) : AllReplaced(FieldTexts(t) \cup {t.DisplayName})

(***************************** result references ***************************)
\* A variable of a declared result is the text between "$(" and ")", such as
\* tasks.a.results.arr[1].  Its shape is its dot-separated segments and the
\* index suffix of its last segment; the text is built from the shape, and
\* strings.Split and v1.ParseResultName are the way back from the text to the
\* shape, over the shapes of the model.
NoIdx == [k |-> "none", i |-> 0]

StarIdx == [k |-> "star", i |-> 0]

IntIdx(i) == [k |-> "int", i |-> i]

Shape(parts, idx) == [parts |-> parts, idx |-> idx]

RECURSIVE Join(_)
\* strings.Join(parts, ".")
Join(parts) ==
    IF Len(parts) = 1 THEN parts[1] ELSE parts[1] \o "." \o Join(Tail(parts))

IdxText(idx) ==
    CASE idx.k = "star" -> "[*]"
      [] idx.k = "int" -> "[" \o ToString(idx.i) \o "]"
      [] OTHER -> ""

\* the text of a variable of the given shape
VarString(shape) == Join(shape.parts) \o IdxText(shape.idx)

Ref4(first, task, result, idx) == Shape(<<first, task, "results", result>>, idx)

\* references of the expected shapes
ShapedVars ==
    {Ref4("tasks", "a", "str", NoIdx), Ref4("finally", "f", "str", NoIdx),
     Ref4("tasks", "a", "arr", StarIdx), Ref4("tasks", "a", "arr", NoIdx),
     Ref4("tasks", "a", "empty", IntIdx(0)),
     Ref4("tasks", "a", "obj", StarIdx),
     Ref4("tasks", "a", "both", NoIdx),
     Ref4("tasks", "c", "cr", NoIdx), Ref4("tasks", "cfail", "cr", NoIdx),
     Ref4("tasks", "failed", "x", NoIdx), Ref4("tasks", "skipped", "x", NoIdx),
     Ref4("tasks", "ok", "x", NoIdx), Ref4("tasks", "nostatus", "x", NoIdx),
     Shape(<<"tasks", "a", "results", "obj", "k1">>, NoIdx),
     Shape(<<"tasks", "a", "results", "obj", "nokey">>, NoIdx),
     Shape(<<"tasks", "failed", "results", "x", "k1">>, NoIdx),
     Shape(<<"tasks", "nostatus", "results", "x", "k1">>, NoIdx)}
        \cup {Ref4("tasks", "a", "arr", IntIdx(i)) : i \in 0..MaxLen}

\* references of other shapes: a wrong first segment, a third segment other
\* than results, more than five segments, fewer than four
MalformedVars ==
    {Shape(<<"foo", "a", "results", "str">>, NoIdx),
     Shape(<<"tasks", "a", "outputs", "str">>, NoIdx),
     Shape(<<"tasks", "a", "results", "obj", "k1", "extra">>, NoIdx),
     Shape(<<"tasks", "a", "results">>, NoIdx),
     Shape(<<"tasks", "a">>, NoIdx),
     Shape(<<"finally">>, NoIdx),
     Shape(<<"foo", "a">>, NoIdx),
     Shape(<<"foo">>, NoIdx)}

\* every shape a variable or a key of the model has
Shapes ==
    LET given == ShapedVars \cup MalformedVars
    IN given \cup {[sh EXCEPT !.idx = NoIdx] : sh \in given}

\* from the text of a variable to its shape
ShapeOf == [str \in {VarString(sh) : sh \in Shapes} |->
               CHOOSE sh \in Shapes : VarString(sh) = str]

\* strings.Split(variable, "."), the index suffix of the last segment apart
Split(variable) == ShapeOf[variable].parts

\* the index v1.ParseResultName finds on the last segment: none, [*] or [i]
ParseIdx(variable) == ShapeOf[variable].idx

\* how many parts a result reference is split into: tasks.<task>.results.<result>
resultsParseNumber == 4

\* ... and an object attribute reference: tasks.<task>.results.<result>.<key>
objectElementResultsParseNumber == 5

\* v1.ResultTaskPart, v1.ResultFinallyPart, v1beta1.ResultResultPart
ResultTaskPart == "tasks"

ResultFinallyPart == "finally"

ResultResultPart == "results"

\* v1.TaskRunReasonSuccessful
TaskRunReasonSuccessful == "Succeeded"

\* PipelineTaskStatusPrefix + taskName + PipelineTaskStatusSuffix
StatusKey(taskName) == "tasks." \o taskName \o ".status"

\* substitution.StripStarVarSubExpression: the variable without a trailing [*]
StripStarVarSubExpression(variable) ==
    IF ParseIdx(variable).k = "star"
    THEN VarString([ShapeOf[variable] EXCEPT !.idx = NoIdx]) ELSE variable

\* a slip: the index of the reference dropped
AtoiIdxDropped(idx) == 0

\* strconv.Atoi of the index text v1.ParseResultName returns, its error
\* ignored: the number of [i], and 0 for no index
AtoiIdx(idx) == IF idx.k = "int" THEN idx.i ELSE 0

\* the reference $(variable) as it stands in a value
VarText(variable) ==
    <<[lit |-> FALSE, s |-> StripStarVarSubExpression(variable),
       star |-> ParseIdx(variable).k = "star"]>>

\* the variable a reference token of a value stands for
TokenVar(tok) == IF tok.star THEN tok.s \o "[*]" ELSE tok.s

\* PipelineResult.GetVarSubstitutionExpressions: the variables of the value,
\* in the order they stand in it
GetVarSubstitutionExpressions(value) ==
    LET isRef(tok) == ~tok.lit
    IN [i \in DOMAIN SelectSeq(value.StringVal, isRef) |->
          TokenVar(SelectSeq(value.StringVal, isRef)[i])]

Missing == [found |-> FALSE, value |-> NilVal]

RECURSIVE firstNamed(_, _)
\* the value of the first result of the list with the name
firstNamed(results, resultName) ==
    IF results = <<>> THEN Missing
    ELSE IF Head(results).Name = resultName
    THEN [found |-> TRUE, value |-> Head(results).Value]
    ELSE firstNamed(Tail(results), resultName)

\* taskResultValue: nil if the task is not in the map or has no such result
taskResultValue(taskName, resultName, taskResults) ==
    IF taskName \in DOMAIN taskResults
    THEN firstNamed(taskResults[taskName], resultName) ELSE Missing

\* a slip: the custom task results never looked at
runResultValueIgnored(taskName, resultName, runRes) == Missing

\* runResultValue: nil if the task is not in the map or has no such result
runResultValue(taskName, resultName, runRes) ==
    IF taskName \in DOMAIN runRes
    THEN firstNamed(runRes[taskName], resultName) ELSE Missing

(***************************** the aggregator ******************************)
\* the state of the loop over the variables of one declared result
LoopState(m, invalid, valid, panicked, log) ==
    [memo |-> m, invalid |-> invalid, valid |-> valid, panicked |-> panicked, log |-> log]

\* "invalidPipelineResults = append(...); validPipelineResult = false"
markInvalid(st, name) ==
    [st EXCEPT !.invalid = Append(@, name), !.valid = FALSE]

\* a slip: the status of the task not looked at
missingResultAlwaysInvalid(st, name, taskName, taskstatus) == markInvalid(st, name)

\* a slip: a missing result dropped without being named, whatever the status
missingResultNeverInvalid(st, name, taskName, taskstatus) == [st EXCEPT !.valid = FALSE]

\* "validPipelineResult = false; continue" when the status map has a status
\* other than Succeeded for the task, else the result is marked invalid
missingResult(st, name, taskName, taskstatus) ==
    IF /\ StatusKey(taskName) \in DOMAIN taskstatus
       /\ taskstatus[StatusKey(taskName)] # TaskRunReasonSuccessful
    THEN [st EXCEPT !.valid = FALSE]
    ELSE markInvalid(st, name)

\* "switch resultValue.Type" for a task result that was found: a string is
\* stored under the variable, an array element under the variable if the index
\* is within the array, a whole array or object under the variable without [*]
resolveTaskResult(st, name, variable, stringIdx, value) ==
    CASE value.Type = "string" ->
            [st EXCEPT !.memo.s = Put(@, variable, value.StringVal)]
      [] value.Type = "array" ->
            IF stringIdx.k # "star"
            THEN IF AtoiIdx(stringIdx) < Len(value.ArrayVal)
                 THEN [st EXCEPT !.memo.s =
                         Put(@, variable, value.ArrayVal[AtoiIdx(stringIdx) + 1])]
                 ELSE markInvalid(st, name)
            ELSE [st EXCEPT !.memo.a =
                    Put(@, StripStarVarSubExpression(variable), value.ArrayVal)]
      [] value.Type = "object" ->
            [st EXCEPT !.memo.o =
                Put(@, StripStarVarSubExpression(variable), value.ObjectVal)]
      [] OTHER -> st

\* the if / else if / else over the two lookups of case resultsParseNumber
resolveLookedUp(st, name, variable, taskName, resultValue, runValue, taskstatus) ==
    IF resultValue.found
    THEN resolveTaskResult(st, name, variable, ParseIdx(variable), resultValue.value)
    ELSE IF runValue.found
    THEN [st EXCEPT !.memo.s = Put(@, variable, runValue.value)]
    ELSE missingResult(st, name, taskName, taskstatus)

\* case resultsParseNumber: tasks.<taskName>.results.<resultName>, with [i] or [*]
resolveResult(st, name, variable, variableParts, taskRunResults, customTaskResults, taskstatus) ==
    resolveLookedUp(st, name, variable, variableParts[2],
                    taskResultValue(variableParts[2], variableParts[4], taskRunResults),
                    runResultValue(variableParts[2], variableParts[4], customTaskResults),
                    taskstatus)

\* the if / else over the lookup of case objectElementResultsParseNumber
resolveAttribute(st, name, variable, taskName, objectKey, resultValue, taskstatus) ==
    IF resultValue.found
    THEN IF ParseIdx(variable).k = "none" /\ objectKey \in DOMAIN resultValue.value.ObjectVal
         THEN [st EXCEPT !.memo.s = Put(@, variable, resultValue.value.ObjectVal[objectKey])]
         ELSE markInvalid(st, name)
    ELSE missingResult(st, name, taskName, taskstatus)

\* case objectElementResultsParseNumber: tasks.<taskName>.results.<resultName>.<key>
resolveObjectElement(st, name, variable, variableParts, taskRunResults, taskstatus) ==
    resolveAttribute(st, name, variable, variableParts[2], variableParts[5],
                     taskResultValue(variableParts[2], variableParts[4], taskRunResults),
                     taskstatus)

\* whether the variable is a key of one of the three maps already
isMemoized(m, variable) ==
    variable \in DOMAIN m.s \/ variable \in DOMAIN m.a \/ variable \in DOMAIN m.o

\* the body of "for _, variable := range variablesInPipelineResult" once the
\* variable is split.  variableParts[2] is read whenever the first segment is
\* tasks or finally: with fewer than three segments that read is an index out
\* of range, and the call panics.
resolveParts(st, name, variable, variableParts, taskRunResults, customTaskResults, taskstatus) ==
    IF isMemoized(st.memo, variable) THEN st
    ELSE IF variableParts[1] # ResultTaskPart /\ variableParts[1] # ResultFinallyPart
    THEN markInvalid(st, name)
    ELSE IF Len(variableParts) < 3
    THEN [st EXCEPT !.panicked = TRUE]
    ELSE IF variableParts[3] # ResultResultPart
    THEN markInvalid(st, name)
    ELSE CASE Len(variableParts) = resultsParseNumber ->
                 resolveResult(st, name, variable, variableParts, taskRunResults,
                               customTaskResults, taskstatus)
           [] Len(variableParts) = objectElementResultsParseNumber ->
                 resolveObjectElement(st, name, variable, variableParts,
                                      taskRunResults, taskstatus)
           [] OTHER -> markInvalid(st, name)

\* the body of "for _, variable := range variablesInPipelineResult"
resolveVariable(st, name, variable, taskRunResults, customTaskResults, taskstatus) ==
    resolveParts(st, name, variable, Split(variable), taskRunResults,
                 customTaskResults, taskstatus)

\* st1, the state after one iteration that began in st, with the record of
\* the iteration added to its log: the variable, whether it was memoized
\* before, what the string map holds for it after, how many names the
\* iteration added to the invalid list
logged(st, st1, variable) ==
    [st1 EXCEPT !.log =
        Append(@, [variable |-> variable,
                   memoized |-> isMemoized(st.memo, variable),
                   added |-> Len(st1.invalid) - Len(st.invalid),
                   valid |-> st1.valid,
                   panicked |-> st1.panicked,
                   s |-> IF variable \in DOMAIN st1.memo.s
                         THEN <<st1.memo.s[variable]>> ELSE <<>>])]

RECURSIVE resolveVariables(_, _, _, _, _, _)
\* the loop over the variables of one declared result
resolveVariables(st, name, variables, taskRunResults, customTaskResults, taskstatus) ==
    IF variables = <<>> \/ st.panicked THEN st
    ELSE resolveVariables(
            logged(st,
                   resolveVariable(st, name, Head(variables), taskRunResults,
                                   customTaskResults, taskstatus),
                   Head(variables)),
            name, Tail(variables), taskRunResults, customTaskResults, taskstatus)

\* "if validPipelineResult { ... runResults = append(runResults, ...) }" after
\* the loop over the variables ended in st
emitResult(st, results, pipelineResult, variables) ==
    [memo |-> st.memo,
     invalid |-> st.invalid,
     panicked |-> st.panicked,
     log |-> st.log,
     results |-> IF variables # <<>> /\ st.valid /\ ~st.panicked
                 THEN Append(results,
                             [Name |-> pipelineResult.Name,
                              Value |-> ReplaceValue(pipelineResult.Value,
                                                     st.memo.s, st.memo.a, st.memo.o)])
                 ELSE results]

\* the variables of one declared result resolved, then its value emitted
resolvePipelineResult(m, results, invalid, pipelineResult, variables, taskRunResults, customTaskResults, taskstatus) ==
    emitResult(resolveVariables(LoopState(m, invalid, TRUE, FALSE, <<>>),
                                pipelineResult.Name, variables,
                                taskRunResults, customTaskResults, taskstatus),
               results, pipelineResult, variables)

\* one declared result: the body of "for _, pipelineResult := range results"
processPipelineResult(m, results, invalid, pipelineResult, taskRunResults, customTaskResults, taskstatus) ==
    resolvePipelineResult(m, results, invalid, pipelineResult,
                          GetVarSubstitutionExpressions(pipelineResult.Value),
                          taskRunResults, customTaskResults, taskstatus)

(***************************** aggregator inputs ***************************)
\* an array result of n elements: "e0", "e1", ...
ResultArray(n) == [i \in 1..n |-> T("e" \o ToString(i - 1))]

\* the results of the completed task runs, by pipeline task name
TaskRunResults ==
    [t \in {"a", "f"} |->
        IF t = "a"
        THEN << [Name |-> "str", Value |-> StrVal(T("sv"))],
                [Name |-> "arr", Value |-> ArrVal(ResultArray(MaxLen))],
                [Name |-> "empty", Value |-> ArrVal(<<>>)],
                [Name |-> "obj", Value |-> ObjVal([k \in {"k1"} |-> T("ov1")])],
                [Name |-> "both", Value |-> StrVal(T("task-both"))] >>
        ELSE << [Name |-> "str", Value |-> StrVal(T("fv"))] >>]

\* the results of the custom runs, by pipeline task name
CustomTaskResults ==
    [t \in {"a", "c", "cfail"} |->
        CASE t = "a" -> << [Name |-> "both", Value |-> T("custom-both")] >>
          [] t = "c" -> << [Name |-> "cr", Value |-> T("cv")] >>
          [] OTHER -> << [Name |-> "cr", Value |-> T("cfv")] >>]

\* the status map: failed and cfail failed, skipped was skipped, ok succeeded;
\* a, f, c and nostatus have no entry
TaskStatus ==
    [k \in {StatusKey("failed"), StatusKey("cfail"), StatusKey("skipped"), StatusKey("ok")} |->
        CASE k = StatusKey("ok") -> "Succeeded"
          [] k = StatusKey("skipped") -> "None"
          [] OTHER -> "Failed"]

\* the references declared results combine in pairs
PairedVars ==
    {Ref4("tasks", "a", "str", NoIdx), Ref4("tasks", "failed", "x", NoIdx),
     Ref4("tasks", "nostatus", "x", NoIdx), Ref4("tasks", "a", "arr", IntIdx(MaxLen)),
     Shape(<<"foo", "a", "results", "str">>, NoIdx), Shape(<<"tasks", "a">>, NoIdx)}

\* the values a declared result may have: a literal, one reference, two
ResultValues ==
    {StrVal(T("literal"))}
        \cup {StrVal(VarText(VarString(v))) : v \in ShapedVars \cup MalformedVars}
        \cup {StrVal(VarText(VarString(v)) \o T("-") \o VarText(VarString(w))) :
                 v \in PairedVars, w \in PairedVars}

\* the name of the n-th declared result
ResultName(n) == "r" \o ToString(n)

(***************************** aggregator steps ****************************)
\* no entry point is being called on a pipeline spec
ApplyIdle ==
    /\ spec = [Params |-> <<>>, Tasks |-> <<>>, Finally |-> <<>>, Workspaces |-> <<>>]
    /\ pr = [Name |-> RunName, Namespace |-> "ns", UID |-> "uid1",
             Params |-> <<>>, Workspaces |-> <<>>]
    /\ out = spec
    /\ lastOp = "none"
    /\ repl = NoMaps
    /\ prRepl = NoMaps

\* ApplyTaskResultsToPipelineResults is entered: nothing resolved yet
ResultsInit ==
    /\ ApplyIdle
    /\ CtxIdle
    /\ RunsIdle
    /\ aggPc = "loop"
    /\ memo = NoMaps
    /\ runResults = <<>>
    /\ invalidPipelineResults = <<>>
    /\ processed = <<>>
    /\ steps = <<>>
    /\ ret = [results |-> <<>>, err |-> <<>>]

\* the loop moves on with what the iteration r of pipelineResult left
LoopOn(r, pipelineResult) ==
    /\ processed' = Append(processed, pipelineResult)
    /\ steps' = r.log
    /\ memo' = r.memo
    /\ runResults' = r.results
    /\ invalidPipelineResults' = r.invalid
    /\ aggPc' = IF r.panicked THEN "panic" ELSE "loop"
    /\ UNCHANGED ret

\* the iteration for the n-th declared result, with the given value
ProcessNth(n, value) ==
    LoopOn(processPipelineResult(memo, runResults, invalidPipelineResults,
                                 [Name |-> ResultName(n), Value |-> value],
                                 TaskRunResults, CustomTaskResults, TaskStatus),
           [Name |-> ResultName(n), Value |-> value])

\* one iteration of "for _, pipelineResult := range results", for the next
\* declared result of the list, whatever its value is
ProcessResult ==
    /\ aggPc = "loop"
    /\ Len(processed) < MaxResults
    /\ \E value \in ResultValues : ProcessNth(Len(processed) + 1, value)
    /\ UNCHANGED <<applyVars, ctxVars, runsVars>>

\* the list is at its end: the results and, if any name was marked invalid,
\* the error naming them are returned
ReturnResults ==
    /\ aggPc = "loop"
    /\ aggPc' = "done"
    /\ ret' = [results |-> runResults, err |-> invalidPipelineResults]
    /\ UNCHANGED <<memo, runResults, invalidPipelineResults, processed, steps>>
    /\ UNCHANGED <<applyVars, ctxVars, runsVars>>

ResultsNext ==
    \/ ProcessResult
    \/ ReturnResults

SpecResults == ResultsInit /\ [][ResultsNext]_vars

(*********************** claims about the aggregator ***********************)
\* the names of the emitted results, and of the results marked invalid
NamesOf(results) == {results[i].Name : i \in DOMAIN results}

Named(invalid) == {invalid[i] : i \in DOMAIN invalid}

\* the variables of a declared result
VarsOf(pipelineResult) ==
    {GetVarSubstitutionExpressions(pipelineResult.Value)[i] :
        i \in DOMAIN GetVarSubstitutionExpressions(pipelineResult.Value)}

\* a declared result that is one reference and nothing else
RefTo(shape) == StrVal(VarText(VarString(shape)))

\* <tasks|finally>.<name>.results.<result>, with or without an index
FourSegments(v) ==
    /\ Len(Split(v)) = 4
    /\ Split(v)[1] \in {"tasks", "finally"}
    /\ Split(v)[3] = "results"

\* <tasks|finally>.<name>.results.<result>.<attrKey>
FiveSegments(v) ==
    /\ Len(Split(v)) = 5
    /\ Split(v)[1] \in {"tasks", "finally"}
    /\ Split(v)[3] = "results"

Malformed(v) == ~FourSegments(v) /\ ~FiveSegments(v)

\* what a map from task names to lists of named results holds under a task
\* name and a result name: the value of the first result of that name
HeldBy(resultsByTask, taskName, resultName) ==
    IF /\ taskName \in DOMAIN resultsByTask
       /\ \E i \in DOMAIN resultsByTask[taskName] :
             resultsByTask[taskName][i].Name = resultName
    THEN [found |-> TRUE,
          value |-> resultsByTask[taskName][
                        CHOOSE i \in DOMAIN resultsByTask[taskName] :
                           /\ resultsByTask[taskName][i].Name = resultName
                           /\ \A k \in 1..(i - 1) :
                                 resultsByTask[taskName][k].Name # resultName].Value]
    ELSE [found |-> FALSE, value |-> NilVal]

\* what the inputs of the call hold for a reference of one of the two shapes
InTaskResults(v) == HeldBy(TaskRunResults, Split(v)[2], Split(v)[4])

InCustomResults(v) == HeldBy(CustomTaskResults, Split(v)[2], Split(v)[4])

\* found in neither the task results nor the custom task results
FoundNowhere(v) ==
    /\ FourSegments(v) \/ FiveSegments(v)
    /\ ~InTaskResults(v).found
    /\ ~InCustomResults(v).found

\* the status map records a status other than Succeeded for the producer
ProducerNotSuccessful(v) ==
    /\ StatusKey(Split(v)[2]) \in DOMAIN TaskStatus
    /\ TaskStatus[StatusKey(Split(v)[2])] # "Succeeded"

SkippedProducer(v) == FoundNowhere(v) /\ ProducerNotSuccessful(v)

MissingResult(v) == FoundNowhere(v) /\ ~ProducerNotSuccessful(v)

\* an indexed reference to an array task result
IndexedArray(v) ==
    /\ FourSegments(v)
    /\ ParseIdx(v).k = "int"
    /\ InTaskResults(v).found
    /\ InTaskResults(v).value.Type = "array"

OutOfBounds(v) ==
    IndexedArray(v) /\ ParseIdx(v).i >= Len(InTaskResults(v).value.ArrayVal)

\* the call crashed while it worked on the j-th declared result
CrashedAt(j) == aggPc = "panic" /\ j = Len(processed)

\* C5: a reference found in neither result map whose producer has a status
\* other than Succeeded adds no name to the invalid list in its iteration,
\* and the declared result that holds it is in neither the results of the
\* loop nor the results returned.
C5_SkippedProducerOmitted ==
    /\ \A i \in DOMAIN steps :
          SkippedProducer(steps[i].variable)
              => steps[i].added = 0 /\ ~steps[i].valid
    /\ \A j \in DOMAIN processed :
          (\E v \in VarsOf(processed[j]) : SkippedProducer(v))
              => /\ processed[j].Name \notin NamesOf(runResults)
                 /\ processed[j].Name \notin NamesOf(ret.results)

\* the call returned; a declared result was the reference to a result of the
\* failed task, it is not among the results and no error names it
C5_Witness ==
    /\ aggPc = "done"
    /\ Len(processed) = 2
    /\ processed[1].Value = RefTo(Ref4("tasks", "a", "str", NoIdx))
    /\ processed[2].Value = RefTo(Ref4("tasks", "failed", "x", NoIdx))
    /\ steps[1].added = 0
    /\ NamesOf(ret.results) = {processed[1].Name}
    /\ ret.err = <<>>

\* a reference the inputs of the call resolve: a task result that is a
\* string, an object, a whole array or an element within the array, a custom
\* result when there is no task result, a key the object result has
Resolvable(v) ==
    \/ /\ FourSegments(v)
       /\ InTaskResults(v).found
       /\ (InTaskResults(v).value.Type = "array" /\ ParseIdx(v).k # "star")
             => AtoiIdx(ParseIdx(v)) < Len(InTaskResults(v).value.ArrayVal)
    \/ /\ FourSegments(v)
       /\ ~InTaskResults(v).found
       /\ InCustomResults(v).found
    \/ /\ FiveSegments(v)
       /\ InTaskResults(v).found
       /\ Split(v)[5] \in DOMAIN InTaskResults(v).value.ObjectVal

\* a reference that makes its declared result invalid: a bad shape, an index
\* out of bounds, a missing key, a missing result with no status to excuse it
Invalid(v) == ~Resolvable(v) /\ ~SkippedProducer(v)

AllResolve(pipelineResult) ==
    /\ VarsOf(pipelineResult) # {}
    /\ \A v \in VarsOf(pipelineResult) : Resolvable(v)

SomeInvalid(pipelineResult) == \E v \in VarsOf(pipelineResult) : Invalid(v)

\* the call is over, by a return or by a crash
Over == aggPc \in {"done", "panic"}

\* what the caller got: nothing if the call crashed
Returned == IF aggPc = "done" THEN ret ELSE [results |-> <<>>, err |-> <<>>]

\* the call returned, and what it returned is per-result: every declared
\* result whose references all resolve, an error exactly when a declared
\* result is invalid, naming each of them
C6_WhenReturned ==
    aggPc = "done" =>
       /\ \A j \in DOMAIN processed :
             /\ AllResolve(processed[j]) => processed[j].Name \in NamesOf(ret.results)
             /\ SomeInvalid(processed[j]) => processed[j].Name \in Named(ret.err)
       /\ (ret.err # <<>>) <=> (\E j \in DOMAIN processed : SomeInvalid(processed[j]))

\* C6: once the call is over, for whatever list of declared results, every
\* declared result whose references all resolve has been returned, and the
\* error is there exactly when a declared result was invalid and names every
\* one of them.
C6_PartialResultsReturned ==
    Over =>
       /\ \A j \in DOMAIN processed :
             /\ AllResolve(processed[j]) => processed[j].Name \in NamesOf(Returned.results)
             /\ SomeInvalid(processed[j]) => processed[j].Name \in Named(Returned.err)
       /\ (Returned.err # <<>>) <=> (\E j \in DOMAIN processed : SomeInvalid(processed[j]))

\* C7: a variable of any other shape than the two marks its declared result
\* invalid in its iteration, which is not the end of the call by a crash.
C7_MalformedMarkedInvalid ==
    /\ aggPc # "panic"
    /\ \A i \in DOMAIN steps :
          Malformed(steps[i].variable)
              => /\ steps[i].added = 1
                 /\ ~steps[i].valid
                 /\ ~steps[i].panicked

\* the shapes that do mark the declared result invalid: all but the ones of
\* fewer than three segments that begin with tasks or finally
C7_OtherShapes ==
    \A i \in DOMAIN steps :
       (Malformed(steps[i].variable) /\ ~steps[i].panicked)
           => steps[i].added = 1 /\ ~steps[i].valid

\* the call crashes on no other variable than one of fewer than three
\* segments that begins with tasks or finally
C7_OnlyCrash ==
    aggPc = "panic" =>
       /\ steps # <<>>
       /\ Len(Split(steps[Len(steps)].variable)) < 3
       /\ Split(steps[Len(steps)].variable)[1] \in {"tasks", "finally"}

\* C8: an indexed reference to an array task result of n elements holds
\* element i after its iteration if i < n, and the declared result that is
\* this reference is emitted with that element; if i >= n the iteration adds
\* the name to the invalid list and does not crash, the declared result is
\* not emitted, and the error returned names it.
C8_ArrayIndexBounds ==
    /\ \A i \in DOMAIN steps :
          IndexedArray(steps[i].variable) =>
             IF OutOfBounds(steps[i].variable)
             THEN /\ steps[i].added = 1
                  /\ ~steps[i].valid
                  /\ ~steps[i].panicked
                  /\ steps[i].s = <<>>
             ELSE /\ steps[i].added = 0
                  /\ steps[i].s =
                        <<InTaskResults(steps[i].variable).value.ArrayVal[
                              ParseIdx(steps[i].variable).i + 1]>>
    /\ \A j \in DOMAIN processed :
          /\ (\E v \in VarsOf(processed[j]) : OutOfBounds(v) /\ ~CrashedAt(j))
                => /\ processed[j].Name \notin NamesOf(runResults)
                   /\ processed[j].Name \in Named(invalidPipelineResults)
                   /\ aggPc = "done" =>
                         /\ processed[j].Name \notin NamesOf(ret.results)
                         /\ processed[j].Name \in Named(ret.err)
          /\ \A v \in VarsOf(processed[j]) :
                (IndexedArray(v) /\ ~OutOfBounds(v) /\ processed[j].Value = StrVal(VarText(v)))
                   => \E k \in DOMAIN runResults :
                         runResults[k] =
                            [Name |-> processed[j].Name,
                             Value |-> StrVal(InTaskResults(v).value.ArrayVal[ParseIdx(v).i + 1])]

\* the call returned; the reference to the last element was emitted with it
\* and the reference one past the end is named in the error
C8_Witness ==
    /\ aggPc = "done"
    /\ Len(processed) = 2
    /\ processed[1].Value = RefTo(Ref4("tasks", "a", "arr", IntIdx(MaxLen - 1)))
    /\ processed[2].Value = RefTo(Ref4("tasks", "a", "arr", IntIdx(MaxLen)))
    /\ ret.results = <<[Name |-> processed[1].Name,
                        Value |-> StrVal(T("e" \o ToString(MaxLen - 1)))]>>
    /\ ret.err = <<processed[2].Name>>

\* C9: a reference found in neither result map whose producer has no status,
\* or the status Succeeded, adds the name of its declared result to the
\* invalid list in its iteration; the declared result is not emitted and the
\* error returned names it.
C9_MissingResultInvalid ==
    /\ \A i \in DOMAIN steps :
          MissingResult(steps[i].variable)
              => steps[i].added = 1 /\ ~steps[i].valid
    /\ \A j \in DOMAIN processed :
          (\E v \in VarsOf(processed[j]) : MissingResult(v) /\ ~CrashedAt(j))
              => /\ processed[j].Name \notin NamesOf(runResults)
                 /\ processed[j].Name \in Named(invalidPipelineResults)
                 /\ aggPc = "done" =>
                       /\ processed[j].Name \notin NamesOf(ret.results)
                       /\ processed[j].Name \in Named(ret.err)

\* the call returned; a result of a task with no status and a result of a
\* task that succeeded were referenced, and the error names both
C9_Witness ==
    /\ aggPc = "done"
    /\ Len(processed) = 2
    /\ processed[1].Value = RefTo(Ref4("tasks", "nostatus", "x", NoIdx))
    /\ processed[2].Value = RefTo(Ref4("tasks", "ok", "x", NoIdx))
    /\ ret.results = <<>>
    /\ ret.err = <<processed[1].Name, processed[2].Name>>

\* C10: a reference of four segments that was not resolved before holds the
\* value of the task result if there is one, whatever the custom results
\* hold; with no task result and a custom result it holds the custom result's
\* value and its iteration neither adds a name to the invalid list nor drops
\* the declared result, whatever the status of the task.
C10_CustomResultFallback ==
    /\ \A i \in DOMAIN steps :
          (FourSegments(steps[i].variable) /\ ~steps[i].memoized) =>
             /\ (InTaskResults(steps[i].variable).found
                    /\ InTaskResults(steps[i].variable).value.Type = "string")
                   => steps[i].s = <<InTaskResults(steps[i].variable).value.StringVal>>
             /\ (~InTaskResults(steps[i].variable).found
                    /\ InCustomResults(steps[i].variable).found)
                   => /\ steps[i].s = <<InCustomResults(steps[i].variable).value>>
                      /\ steps[i].added = 0
                      /\ steps[i].valid = (i = 1 \/ steps[i - 1].valid)
    /\ \A j \in DOMAIN processed :
          \A v \in VarsOf(processed[j]) :
             (FourSegments(v) /\ processed[j].Value = StrVal(VarText(v))) =>
                /\ (InTaskResults(v).found /\ InTaskResults(v).value.Type = "string")
                      => \E k \in DOMAIN runResults :
                            runResults[k] = [Name |-> processed[j].Name,
                                             Value |-> InTaskResults(v).value]
                /\ (~InTaskResults(v).found /\ InCustomResults(v).found)
                      => \E k \in DOMAIN runResults :
                            runResults[k] = [Name |-> processed[j].Name,
                                             Value |-> StrVal(InCustomResults(v).value)]

\* the call returned; the result both maps hold came from the task results,
\* the custom result of the failed custom task came from the custom results
C10_Witness ==
    /\ aggPc = "done"
    /\ Len(processed) = 2
    /\ processed[1].Value = RefTo(Ref4("tasks", "a", "both", NoIdx))
    /\ processed[2].Value = RefTo(Ref4("tasks", "cfail", "cr", NoIdx))
    /\ ret.results = <<[Name |-> processed[1].Name, Value |-> StrVal(T("task-both"))],
                       [Name |-> processed[2].Name, Value |-> StrVal(T("cfv"))]>>
    /\ ret.err = <<>>

\* a declared result with a reference whose producer was not successful
HasSkippedProducer(pipelineResult) ==
    \E v \in VarsOf(pipelineResult) : SkippedProducer(v)

\* on the calls that return: such a declared result is not among the results,
\* and the error names it exactly when another of its variables is invalid
C16_WhenReturned ==
    aggPc = "done" =>
       \A j \in DOMAIN processed :
          HasSkippedProducer(processed[j])
              => /\ processed[j].Name \notin NamesOf(ret.results)
                 /\ processed[j].Name \in Named(ret.err) <=> SomeInvalid(processed[j])

\* C16: once the call is over, a declared result with a reference whose
\* producer has a non-successful status has not been returned, whatever the
\* order of its variables, and the error names it exactly when another of
\* its variables is invalid: a bad shape, an index out of bounds, a missing
\* key, a missing result with no such status.
C16_SkippedAmongSeveral ==
    Over =>
       \A j \in DOMAIN processed :
          HasSkippedProducer(processed[j])
              => /\ processed[j].Name \notin NamesOf(Returned.results)
                 /\ processed[j].Name \in Named(Returned.err) <=> SomeInvalid(processed[j])

\* what a call has when it has gone through no declared result yet
NothingYet == [memo |-> NoMaps, invalid |-> <<>>, panicked |-> FALSE, log |-> <<>>, results |-> <<>>]

RECURSIVE Aggregated(_, _)
\* what a call that has left acc has after it has gone through the list too
Aggregated(acc, list) ==
    IF list = <<>> \/ acc.panicked THEN acc
    ELSE Aggregated(processPipelineResult(acc.memo, acc.results, acc.invalid, Head(list),
                                          TaskRunResults, CustomTaskResults, TaskStatus),
                    Tail(list))

\* the ways to order the declared results the call has gone through
Orders ==
    {f \in [DOMAIN processed -> DOMAIN processed] :
        \A i, j \in DOMAIN processed : f[i] = f[j] => i = j}

\* what the caller got for a declared result from a call that ended in acc:
\* its value, or that it is named invalid, or nothing
OutcomeOf(acc, name) ==
    IF acc.panicked THEN <<"crashed">>
    ELSE IF name \in NamesOf(acc.results)
    THEN <<"emitted", (CHOOSE r \in {acc.results[i] : i \in DOMAIN acc.results} :
                          r.Name = name).Value>>
    ELSE IF name \in Named(acc.invalid) THEN <<"invalid">>
    ELSE <<"dropped">>

\* C18: when the call has returned, what it returned for each declared result
\* is what it returns for it with the declared results in any other order.
C18_OrderIndependent ==
    aggPc = "done" =>
       \A f \in Orders :
          \A j \in DOMAIN processed :
             OutcomeOf([results |-> ret.results, invalid |-> ret.err, panicked |-> FALSE],
                       processed[j].Name)
                = OutcomeOf(Aggregated(NothingYet, [i \in DOMAIN processed |-> processed[f[i]]]),
                            processed[j].Name)

(********************* task contexts and matrix lengths ********************)
\* most lookups of one entry that compute its cache
MaxCalls == 3

\* most child runs of one run-state entry
MaxRuns == 2

\* the reference expressions the parameters of the model's tasks hold, by
\* their dot-separated segments
CtxExpressions ==
    {<<"tasks", "m", "matrix", "length">>,
     <<"tasks", "m", "matrix", "r", "length">>,
     <<"tasks", "m", "matrix", "nores", "length">>,
     <<"tasks", "e", "matrix", "r", "length">>,
     <<"tasks", "ghost", "matrix", "r", "length">>,
     <<"tasks", "ghost", "matrix", "length">>,
     <<"tasks", "m", "results", "r">>,
     <<"context", "pipelineTask", "retries">>}

\* strings.Split(expression, "."), over the expressions of the model
CtxSplit == [str \in {Join(e) : e \in CtxExpressions} |->
                CHOOSE e \in CtxExpressions : Join(e) = str]

\* tasks.<pipelineTaskName>.matrix.length, tasks.<pipelineTaskName>.matrix.<resultName>.length
isMatrixContextVar(expression) ==
    /\ Len(CtxSplit[expression]) >= 4
    /\ CtxSplit[expression][3] = "matrix"
    /\ CtxSplit[expression][Len(CtxSplit[expression])] = "length"

RECURSIVE filterMatrixContextVar(_)
\* filterMatrixContextVar: a parameter is appended once for each of its
\* expressions that is a matrix context variable
filterMatrixContextVar(params) ==
    IF params = <<>> THEN <<>>
    ELSE [i \in 1..Len(SelectSeq(GetVarSubstitutionExpressions(Head(params).Value),
                                 isMatrixContextVar)) |-> Head(params)]
            \o filterMatrixContextVar(Tail(params))

RECURSIVE firstTaskAndResult(_)
\* the task name, and the result name if there is one, of the first
\* expression that has four or five segments
firstTaskAndResult(expressions) ==
    IF expressions = <<>> THEN [task |-> "", result |-> ""]
    ELSE IF Len(CtxSplit[Head(expressions)]) = 4
    THEN [task |-> CtxSplit[Head(expressions)][2], result |-> ""]
    ELSE IF Len(CtxSplit[Head(expressions)]) = 5
    THEN [task |-> CtxSplit[Head(expressions)][2],
          result |-> CtxSplit[Head(expressions)][4]]
    ELSE firstTaskAndResult(Tail(expressions))

\* Param.ParseTaskandResultName
ParseTaskandResultName(p) == firstTaskAndResult(GetVarSubstitutionExpressions(p.Value))

RECURSIVE product(_)
product(params) ==
    IF params = <<>> THEN 1
    ELSE Len(Head(params).Value.ArrayVal) * product(Tail(params))

\* Matrix.CountCombinations: the product of the lengths of the matrix
\* parameters, or the number of include combinations when there are none
CountCombinations(matrix) ==
    IF ~matrix.present THEN 0
    ELSE IF matrix.Params # <<>> THEN product(matrix.Params)
    ELSE Len(matrix.Include)

\* strconv.Itoa, as a text
Itoa(n) == T(ToString(n))

\* "find the referenced pipelineTask to count the matrix combinations"
putMatrixLength(m, pipelineTaskName, status) ==
    IF /\ pipelineTaskName # ""
       /\ status.present
       /\ \E i \in DOMAIN status.Tasks : status.Tasks[i].Name = pipelineTaskName
    THEN Put(m, "tasks." \o pipelineTaskName \o ".matrix.length",
             Itoa(CountCombinations(
                    status.Tasks[CHOOSE i \in DOMAIN status.Tasks :
                                    /\ status.Tasks[i].Name = pipelineTaskName
                                    /\ \A k \in (i + 1)..Len(status.Tasks) :
                                          status.Tasks[k].Name # pipelineTaskName].Matrix)))
    ELSE m

\* the values of the results of one child run that have the name
namedValues(results, resultName) ==
    LET named(result) == result.Name = resultName
    IN [i \in DOMAIN SelectSeq(results, named) |-> SelectSeq(results, named)[i].Value]

RECURSIVE valuesAcross(_, _)
\* the values the result took across the child runs, in their order
valuesAcross(taskRuns, resultName) ==
    IF taskRuns = <<>> THEN <<>>
    ELSE namedValues(Head(taskRuns), resultName) \o valuesAcross(Tail(taskRuns), resultName)

\* createResultsCacheMatrixedTaskRuns: from each result name a child run of
\* the entry has to the values of that result across the child runs
createResultsCacheMatrixedTaskRuns(rpt) ==
    [resultName \in UNION {{rpt.TaskRuns[i][k].Name : k \in DOMAIN rpt.TaskRuns[i]} :
                              i \in DOMAIN rpt.TaskRuns} |->
        valuesAcross(rpt.TaskRuns, resultName)]

\* a slip: the cache taken for empty whatever it holds
cacheIsEmptyAlways(cache) == TRUE

\* len(pt.ResultsCache) == 0
cacheIsEmpty(cache) == DOMAIN cache = {}

\* "if len(pt.ResultsCache) == 0 { pt.ResultsCache = createResultsCache...(pt) }"
\* on the i-th entry of the run state
withCache(st, i) ==
    IF cacheIsEmpty(st.state[i].ResultsCache)
    THEN [st EXCEPT !.state[i].ResultsCache = createResultsCacheMatrixedTaskRuns(st.state[i]),
                    !.computed[i] = @ + 1]
    ELSE st

\* "resultLength := len(pt.ResultsCache[resultName]); replacements[...] = Itoa(resultLength)"
putResultLength(m, cache, pipelineTaskName, resultName) ==
    Put(m, "tasks." \o pipelineTaskName \o ".matrix." \o resultName \o ".length",
        Itoa(IF resultName \in DOMAIN cache THEN Len(cache[resultName]) ELSE 0))

\* the key written from the cache the i-th entry has in st
withLength(st, pipelineTaskName, resultName, i) ==
    [st EXCEPT !.repl = putResultLength(@, st.state[i].ResultsCache,
                                        pipelineTaskName, resultName)]

\* the body of "for _, pt := range facts.State" for the i-th entry
lookupEntry(st, pipelineTaskName, resultName, i) ==
    IF st.state[i].Name # pipelineTaskName THEN st
    ELSE withLength(withCache(st, i), pipelineTaskName, resultName, i)

RECURSIVE lookupEntries(_, _, _, _)
\* "find the resultName from the ResultsCache": the loop over facts.State
lookupEntries(st, pipelineTaskName, resultName, i) ==
    IF i > Len(st.state) THEN st
    ELSE lookupEntries(lookupEntry(st, pipelineTaskName, resultName, i),
                       pipelineTaskName, resultName, i + 1)

\* the body of "for _, p := range filteredParams", the names of p given
resolveNames(st, names, status) ==
    IF names.task # "" /\ names.result # ""
    THEN lookupEntries([st EXCEPT !.repl = putMatrixLength(@, names.task, status)],
                       names.task, names.result, 1)
    ELSE [st EXCEPT !.repl = putMatrixLength(@, names.task, status)]

RECURSIVE resolveFiltered(_, _, _)
\* "for _, p := range filteredParams"
resolveFiltered(st, filteredParams, status) ==
    IF filteredParams = <<>> THEN st
    ELSE resolveFiltered(resolveNames(st, ParseTaskandResultName(Head(filteredParams)), status),
                         Tail(filteredParams), status)

\* the replacements a call starts with
retriesReplacements(pt) ==
    [k \in {"context.pipelineTask.retries"} |-> Itoa(pt.Retries)]

\* the clone of pt with the replacements applied to its parameters, its
\* matrix and its display name
replaceTaskContexts(pt, m) ==
    [pt EXCEPT
        !.Params = ReplaceVariables(@, m, EmptyMap, EmptyMap),
        !.Matrix = IF IsMatrixed(pt)
                   THEN [@ EXCEPT
                           !.Params = ReplaceVariables(@, m, EmptyMap, EmptyMap),
                           !.Include = [k \in DOMAIN @ |->
                                          ReplaceVariables(@[k], m, EmptyMap, EmptyMap)]]
                   ELSE @,
        !.DisplayName = ApplyText(@, m)]

(********************* inputs of the task contexts *************************)
\* the pipeline task passed in: its display name, a parameter, and its matrix
\* if it has one, hold the given text; a second parameter holds the retries
CtxTask(text, matrixed) ==
    [Name |-> "t",
     Retries |-> 2,
     DisplayName |-> T("n-") \o text,
     Params |-> <<[Name |-> "p", Value |-> StrVal(text)],
                  [Name |-> "q", Value |-> StrVal(R("context.pipelineTask.retries"))]>>,
     Matrix |-> IF matrixed
                THEN [present |-> TRUE,
                      Params |-> <<[Name |-> "m1", Value |-> ArrVal(<<text>>)]>>,
                      Include |-> << <<[Name |-> "i1", Value |-> StrVal(text)]>> >>]
                ELSE NoMatrix]

\* the texts of the tasks: one reference, or two of them
CtxTexts ==
    {R(Join(e)) : e \in CtxExpressions}
        \cup {R("tasks.m.matrix.r.length") \o T("-") \o R("tasks.e.matrix.r.length")}

CtxTasks == {CtxTask(text, matrixed) : text \in CtxTexts, matrixed \in BOOLEAN}

\* pipelineRunStatus.PipelineSpec: nil, or the tasks m (a matrix of 2 x 1
\* combinations) and e (no matrix)
CtxStatuses ==
    {[present |-> FALSE, Tasks |-> <<>>],
     [present |-> TRUE,
      Tasks |-> <<[Name |-> "m",
                   Matrix |-> [present |-> TRUE,
                               Params |-> <<[Name |-> "x", Value |-> ArrVal(<<T("a"), T("b")>>)],
                                            [Name |-> "y", Value |-> ArrVal(<<T("c")>>)]>>,
                               Include |-> <<>>]],
                  [Name |-> "e", Matrix |-> NoMatrix]>>]}

\* the results of the k-th child run of an entry: those of m have the result
\* r, those of e have none
ChildResults(name, k) ==
    IF name = "m" THEN <<[Name |-> "r", Value |-> T("v" \o ToString(k))]>> ELSE <<>>

\* a run-state entry with its first n child runs and nothing cached
Entry(name, n) ==
    [Name |-> name,
     TaskRuns |-> [k \in 1..n |-> ChildResults(name, k)],
     ResultsCache |-> EmptyMap]

(********************* steps of the task contexts **************************)
\* the run state of a resolution pass: the entries m and e, no cache yet
ContextsInit ==
    /\ ApplyIdle
    /\ AggIdle
    /\ RunsIdle
    /\ \E n \in 0..1 : factsState = <<Entry("m", n), Entry("e", 0)>>
    /\ computed = <<0, 0>>
    /\ ctxIn = <<>>
    /\ ctxOut = <<>>
    /\ ctxRepl = EmptyMap
    /\ ctxOp = "none"

\* the call returns: the entries keep the caches st left in them
ReturnContexts(pt, st) ==
    /\ factsState' = st.state
    /\ computed' = st.computed
    /\ ctxRepl' = st.repl
    /\ ctxIn' = pt
    /\ ctxOut' = replaceTaskContexts(pt, st.repl)
    /\ ctxOp' = "call"

\* ApplyPipelineTaskContexts(pt, pipelineRunStatus, facts)
ApplyPipelineTaskContexts ==
    /\ \A i \in DOMAIN computed : computed[i] < MaxCalls
    /\ \E pt \in CtxTasks, status \in CtxStatuses :
          ReturnContexts(pt,
                         resolveFiltered([repl |-> retriesReplacements(pt),
                                          state |-> factsState,
                                          computed |-> computed],
                                         filterMatrixContextVar(pt.Params), status))
    /\ UNCHANGED <<applyVars, aggVars, runsVars>>

\* one more child run of an entry is done, with its results
TaskRunCompletes ==
    /\ \E i \in DOMAIN factsState :
          /\ Len(factsState[i].TaskRuns) < MaxRuns
          /\ factsState' =
                [factsState EXCEPT ![i].TaskRuns =
                    Append(@, ChildResults(factsState[i].Name, Len(@) + 1))]
    /\ ctxOp' = "run"
    /\ UNCHANGED <<ctxIn, ctxOut, ctxRepl, computed>>
    /\ UNCHANGED <<applyVars, aggVars, runsVars>>

ContextsNext ==
    \/ ApplyPipelineTaskContexts
    \/ TaskRunCompletes

SpecContexts == ContextsInit /\ [][ContextsNext]_vars

(********************* claims about the task contexts **********************)
\* the key of the length of a result of a task across its matrix
ResultLengthKey(taskName, resultName) ==
    "tasks." \o taskName \o ".matrix." \o resultName \o ".length"

\* the names the first parameter of the task passed in refers to
Referred == firstTaskAndResult(GetVarSubstitutionExpressions(ctxIn.Params[1].Value))

\* the last call had a parameter with a reference to the length of a result
CalledWithResultLength ==
    ctxOp = "call" /\ Referred.task # "" /\ Referred.result # ""

\* the run state has an entry of the name
HasEntry(taskName) == \E i \in DOMAIN factsState : factsState[i].Name = taskName

\* an entry of the name has the result in its cache
IsCached(taskName, resultName) ==
    \E i \in DOMAIN factsState :
       /\ factsState[i].Name = taskName
       /\ resultName \in DOMAIN factsState[i].ResultsCache

\* C11: the cache of every run-state entry is computed at most once over the
\* calls on the run state, whether or not the computed cache holds results.
C11_CacheComputedOnce == \A i \in DOMAIN computed : computed[i] <= 1

\* C12: after a call with a reference to the length of a result, if the run
\* state has no entry of the task or the entry's cache does not hold the
\* result, the replacements have no key for the reference and the parameter
\* is returned as it was passed in.
C12_UnresolvedLeftAlone ==
    (CalledWithResultLength /\ ~IsCached(Referred.task, Referred.result))
        => /\ ResultLengthKey(Referred.task, Referred.result) \notin DOMAIN ctxRepl
           /\ ctxOut.Params[1] = ctxIn.Params[1]

\* the half that is about a task the run state has no entry of
C12_TaskNotFound ==
    (CalledWithResultLength /\ ~HasEntry(Referred.task))
        => /\ ResultLengthKey(Referred.task, Referred.result) \notin DOMAIN ctxRepl
           /\ ctxOut.Params[1] = ctxIn.Params[1]

\* no step changes or recomputes a cache that holds results
CacheFrozen ==
    \A i \in DOMAIN factsState :
       factsState[i].ResultsCache # EmptyMap
           => /\ factsState'[i].ResultsCache = factsState[i].ResultsCache
              /\ computed'[i] = computed[i]

\* the length a call substituted for a cached result is the length the
\* cache has for it
SubstitutedFromCache ==
    (CalledWithResultLength /\ IsCached(Referred.task, Referred.result))
        => \E i \in DOMAIN factsState :
              /\ factsState[i].Name = Referred.task
              /\ ctxRepl[ResultLengthKey(Referred.task, Referred.result)] =
                    T(ToString(Len(factsState[i].ResultsCache[Referred.result])))

\* C19: once the cache of an entry holds results, no later call recomputes
\* or changes it, and the length substituted for a result of the entry is
\* the length in that cache, however many child runs are done afterwards.
C19_FilledCacheNeverChanges == [][CacheFrozen]_vars /\ []SubstitutedFromCache

\* a call has just substituted 1 for the length of r although two child runs
\* of m have the result: the cache was filled when there was one
C19_Witness ==
    /\ ctxOp = "call"
    /\ Len(factsState[1].TaskRuns) = 2
    /\ factsState[1].ResultsCache = [n \in {"r"} |-> <<T("v1")>>]
    /\ computed[1] = 1
    /\ ResultLengthKey("m", "r") \in DOMAIN ctxRepl
    /\ ctxRepl[ResultLengthKey("m", "r")] = T("1")
    /\ ctxOut.Params[1].Value = StrVal(T("1"))

(********************* runs that share a spec object ***********************)
\* the runs resolved against the spec object: their names, the value they
\* give the parameter and the workspaces they bind differ
SharedRuns ==
    <<[Name |-> "run1", Namespace |-> "ns", UID |-> "uid1",
       Params |-> <<[Name |-> ParamName, Value |-> StrVal(T("rstr1"))]>>,
       Workspaces |-> <<"w1">>],
      [Name |-> "run2", Namespace |-> "ns", UID |-> "uid2",
       Params |-> <<[Name |-> ParamName, Value |-> StrVal(T("rstr2"))]>>,
       Workspaces |-> <<>>]>>

\* "spec.Tasks[i].DisplayName = substitution.ApplyReplacements(...)" for
\* every task of one of the two lists
contextDisplayNames(tasks, pipelineName, run) ==
    [i \in DOMAIN tasks |->
        [tasks[i] EXCEPT !.DisplayName =
            ApplyText(@, GetContextReplacements(pipelineName, run))]]

\* the spec ApplyContexts returns once the display names are set in p
contextsClone(p, pipelineName, run) ==
    ApplyReplacements(p, GetContextReplacements(pipelineName, run), EmptyMap, EmptyMap)

\* the spec ApplyParameters returns for p and the run
parametersClone(p, run) ==
    ApplyReplacements(p, ApplyParametersMaps(p, run).s, ApplyParametersMaps(p, run).a,
                      ApplyParametersMaps(p, run).o)

\* the spec ApplyWorkspaces returns for p and the run
workspacesClone(p, run) ==
    ApplyReplacements(p, WorkspaceReplacements(p, run), EmptyMap, EmptyMap)

\* nothing has been called for a run
NotCalled == [pc |-> "idle", contexts |-> <<>>, parameters |-> <<>>, workspaces |-> <<>>]

\* one spec object, held by the caller of both runs
SharedInit ==
    /\ ApplyIdle
    /\ AggIdle
    /\ CtxIdle
    /\ \E variant \in TaskVariants :
          sharedOrig = [Params |-> <<[Name |-> ParamName, Default |-> StrVal(T("dstr"))]>>,
                        Tasks |-> <<ProbeTask("t1", [kind |-> "whole", i |-> 0], variant)>>,
                        Finally |-> <<ProbeTask("f1", [kind |-> "whole", i |-> 0], variant)>>,
                        Workspaces |-> <<"w1">>]
    /\ sharedSpec = sharedOrig
    /\ runOut = [r \in DOMAIN SharedRuns |-> NotCalled]

\* ApplyContexts for a run, first loop: the display names of spec.Tasks
ContextsSetTasks ==
    /\ \E r \in DOMAIN SharedRuns :
          /\ runOut[r].pc = "idle"
          /\ runOut[r].contexts = <<>>
          /\ sharedSpec' = [sharedSpec EXCEPT
                              !.Tasks = contextDisplayNames(@, PipelineName, SharedRuns[r])]
          /\ runOut' = [runOut EXCEPT ![r].pc = "tasks"]
    /\ UNCHANGED sharedOrig
    /\ UNCHANGED <<applyVars, aggVars, ctxVars>>

\* ApplyContexts for a run, second loop: the display names of spec.Finally
ContextsSetFinally ==
    /\ \E r \in DOMAIN SharedRuns :
          /\ runOut[r].pc = "tasks"
          /\ sharedSpec' = [sharedSpec EXCEPT
                              !.Finally = contextDisplayNames(@, PipelineName, SharedRuns[r])]
          /\ runOut' = [runOut EXCEPT ![r].pc = "finally"]
    /\ UNCHANGED sharedOrig
    /\ UNCHANGED <<applyVars, aggVars, ctxVars>>

\* ApplyContexts for a run: the clone is made of the spec and returned
ContextsReturn ==
    /\ \E r \in DOMAIN SharedRuns :
          /\ runOut[r].pc = "finally"
          /\ runOut' = [runOut EXCEPT
                          ![r].pc = "idle",
                          ![r].contexts =
                              <<contextsClone(sharedSpec, PipelineName, SharedRuns[r])>>]
    /\ UNCHANGED <<sharedOrig, sharedSpec>>
    /\ UNCHANGED <<applyVars, aggVars, ctxVars>>

\* ApplyParameters for a run
SharedApplyParameters ==
    /\ \E r \in DOMAIN SharedRuns :
          /\ runOut[r].pc = "idle"
          /\ runOut[r].parameters = <<>>
          /\ runOut' = [runOut EXCEPT
                          ![r].parameters = <<parametersClone(sharedSpec, SharedRuns[r])>>]
    /\ UNCHANGED <<sharedOrig, sharedSpec>>
    /\ UNCHANGED <<applyVars, aggVars, ctxVars>>

\* ApplyWorkspaces for a run
SharedApplyWorkspaces ==
    /\ \E r \in DOMAIN SharedRuns :
          /\ runOut[r].pc = "idle"
          /\ runOut[r].workspaces = <<>>
          /\ runOut' = [runOut EXCEPT
                          ![r].workspaces = <<workspacesClone(sharedSpec, SharedRuns[r])>>]
    /\ UNCHANGED <<sharedOrig, sharedSpec>>
    /\ UNCHANGED <<applyVars, aggVars, ctxVars>>

SharedNext ==
    \/ ContextsSetTasks
    \/ ContextsSetFinally
    \/ ContextsReturn
    \/ SharedApplyParameters
    \/ SharedApplyWorkspaces

SpecShared == SharedInit /\ [][SharedNext]_vars

(********************* claims about runs that share a spec *****************)
\* the spec ApplyContexts returns for the run when it is resolved alone
AloneContexts(run) ==
    contextsClone([sharedOrig EXCEPT
                      !.Tasks = contextDisplayNames(@, PipelineName, run),
                      !.Finally = contextDisplayNames(@, PipelineName, run)],
                  PipelineName, run)

\* the display names of the tasks of a spec, as strings
DisplayLiterals(p) == UNION {TextLiterals(t.DisplayName) : t \in AllTasks(p)}

\* C13: whatever the order and interleaving of the calls for the two runs,
\* each spec returned for a run is the one returned when the run is resolved
\* alone, and no display name in it holds the name of the other run.
C13_RunsIsolated ==
    \A r \in DOMAIN SharedRuns :
       /\ runOut[r].contexts # <<>>
             => runOut[r].contexts[1] = AloneContexts(SharedRuns[r])
       /\ runOut[r].parameters # <<>>
             => runOut[r].parameters[1] = parametersClone(sharedOrig, SharedRuns[r])
       /\ runOut[r].workspaces # <<>>
             => runOut[r].workspaces[1] = workspacesClone(sharedOrig, SharedRuns[r])
       /\ \A op \in {"contexts", "parameters", "workspaces"} :
             \A q \in DOMAIN SharedRuns \ {r} :
                runOut[r][op] # <<>>
                   => SharedRuns[q].Name \notin DisplayLiterals(runOut[r][op][1])

(********************* task parameters that shadow *************************)
\* what the embedded task spec refers to: the whole parameter, its first
\* element, its attribute k1
ScriptKinds == {"whole", "index", "attr"}

\* the reference of the kind in the given syntax (attributes have one syntax)
ScriptRef(kind, syntax) ==
    CASE kind = "whole" -> R(RefKey(syntax, ParamName))
      [] kind = "index" -> R(RefIdxKey(syntax, ParamName, 0))
      [] OTHER -> R(RefKey(1, ParamName) \o ".k1")

\* a script with the reference in each of the three syntaxes
ScriptOf(kind) ==
    ScriptRef(kind, 1) \o T("|") \o ScriptRef(kind, 2) \o T("|") \o ScriptRef(kind, 3)

\* a task with an embedded task spec that refers to the parameter, and the
\* given task-level parameters
EmbeddedTask(name, params, kind) ==
    [Name |-> name,
     DisplayName |-> T(name),
     Params |-> params,
     Matrix |-> NoMatrix,
     Workspaces |-> <<>>,
     When |-> <<>>,
     TaskRef |-> NoTaskRef,
     OnError |-> T("continue"),
     TaskSpec |-> [present |-> TRUE,
                   Script |-> ScriptOf(kind),
                   Args |-> [j \in 1..3 |-> RStar(RefKey(j, ParamName))]]]

\* the value the task gives its own parameter of the same name
TaskLevelChoices ==
    {StrVal(T("tv")), ArrVal(<<T("t0")>>), ObjVal([k \in {"k1"} |-> T("t-k1")])}

\* a pipeline whose first task has a parameter of the name of the pipeline's
\* parameter and whose second task has none, both with an embedded task
\* spec, and a run that gives the pipeline's parameter a value
ShadowInit ==
    /\ \E r \in RunChoices \ {NilVal}, tv \in TaskLevelChoices, kind \in ScriptKinds :
          /\ spec = [Params |-> <<[Name |-> ParamName, Default |-> NilVal]>>,
                     Tasks |-> <<EmbeddedTask("t1", <<[Name |-> ParamName, Value |-> tv]>>, kind),
                                 EmbeddedTask("t2", <<>>, kind)>>,
                     Finally |-> <<>>,
                     Workspaces |-> <<>>]
          /\ pr = [Name |-> RunName, Namespace |-> "ns", UID |-> "uid1",
                   Params |-> <<[Name |-> ParamName, Value |-> r]>>,
                   Workspaces |-> <<>>]
    /\ out = spec
    /\ lastOp = "none"
    /\ repl = NoMaps
    /\ prRepl = NoMaps
    /\ AggIdle
    /\ CtxIdle
    /\ RunsIdle

SpecShadow == ShadowInit /\ [][ApplyNext]_vars

(********************* claims about shadowing ******************************)
\* the literal strings of an embedded task spec
TaskSpecLiterals(ts) ==
    TextLiterals(ts.Script) \cup UNION {TextLiterals(ts.Args[i]) : i \in DOMAIN ts.Args}

\* the value the first task gives its own parameter, and the run's value
TaskLevel == spec.Tasks[1].Params[1].Value

PipelineLevel == pr.Params[1].Value

\* the script of a task whose three references all resolved to the text
AllThree(text) == text \o T("|") \o text \o T("|") \o text

\* whole references to a string parameter the task gives a string of its own
\* resolve to the task's string under the three syntaxes
C17_WholeShadowed ==
    (/\ lastOp = "ApplyParameters"
     /\ PipelineLevel.Type = "string"
     /\ TaskLevel.Type = "string"
     /\ spec.Tasks[1].TaskSpec.Script = ScriptOf("whole"))
        => out.Tasks[1].TaskSpec.Script = AllThree(TaskLevel.StringVal)

\* the task after it, with no parameter of its own, has the pipeline-level
\* value in its embedded task spec: what the maps of the call give
C17_LaterTasksSeePipeline ==
    lastOp = "ApplyParameters"
        => out.Tasks[2].TaskSpec = ApplyTaskSpec(spec.Tasks[2].TaskSpec, repl.s, repl.a, repl.o)

\* C17: after ApplyParameters, in the embedded task spec of a task that has a
\* parameter of the name and the type of a pipeline-level parameter, no
\* reference to the name has resolved to the pipeline-level value; whole
\* references to a string resolve to the task's value under the three
\* syntaxes; the task after it still gets the pipeline-level value.
C17_TaskParamsShadow ==
    lastOp = "ApplyParameters" =>
       /\ PipelineLevel.Type = TaskLevel.Type
             => TaskSpecLiterals(out.Tasks[1].TaskSpec) \cap ValueLiterals(PipelineLevel) = {}
       /\ C17_WholeShadowed
       /\ C17_LaterTasksSeePipeline

====
